---- MODULE Spec2Model ----
(***************************************************************************)
(* Pointer network (src/model.py): the masked primitives                   *)
(* masked_log_softmax and masked_max, and the decode loop of               *)
(* PointerNet.forward with batch_first = True (the default).               *)
(*                                                                         *)
(* Numbers.  A float32 is a record [t, v]: t is "fin", "-inf" or "nan",    *)
(* and v is the value of a finite float in whole nats; a log-softmax is    *)
(* rounded down to that grid, and exp is tabulated in millionths.          *)
(*                                                                         *)
(* Learned functions (embedding, encoder LSTM, step decoder, W1/W2/vt) are *)
(* not interpreted: the encoder's rows and states and the decoder's state  *)
(* are symbolic terms, and the raw attention scores of a step are drawn    *)
(* from a small set of rows.  Shapes are kept where the code depends on    *)
(* them (squeeze, the step decoder's check of its state).                  *)
(*                                                                         *)
(* Spec is one call of forward; SpecPrim is one call of a primitive on a   *)
(* row of scores and a mask.                                               *)
(***************************************************************************)
EXTENDS Integers, Sequences, FiniteSets, TLC

\* ---------------------------------------------------------------- bounds
\* Largest padded sequence length (input_seq.size(1)) explored.
MaxSeqLen == 3
\* Largest batch size explored.
MaxBatch == 2
\* Largest hidden_size explored.
MaxHidden == 2
\* A raw score so large that a log-score falls below the sentinel min_val.
HugeScore == 20000000
\* A raw score larger than -log(1e-45) = 103.28 but far from the sentinel.
BigScore == 200

\* ------------------------------------------------------ program constants
\* masked_max's default sentinel, min_val = -1e7.
min_val == -10000000
\* log of float32(1e-45) = 2^-149, i.e. -103.28, in whole nats (towards
\* zero, which overstates what is left on a masked position).
log_eps == -103
\* PointerNet.__init__: self.num_layers = 1.
num_layers == 1

\* ----------------------------------------------------------------- floats
Fin(n) == [t |-> "fin", v |-> n]
NegInf == [t |-> "-inf", v |-> 0]
NaN == [t |-> "nan", v |-> 0]

IsFinite(x) == x.t = "fin"

\* x + y for x, y finite, -inf or nan.
FAdd(x, y) ==
  IF x.t = "nan" \/ y.t = "nan" THEN NaN
  ELSE IF x.t = "-inf" \/ y.t = "-inf" THEN NegInf
  ELSE Fin(x.v + y.v)

\* x <= y for x, y finite or -inf.
FLeq(x, y) ==
  \/ x.t = "-inf"
  \/ x.t = "fin" /\ y.t = "fin" /\ x.v <= y.v

\* floor(10^6 * e^(-d)) for d = 0, 1, 2, ...
ExpTable ==
  << 1000000, 367879, 135335, 49787, 18315, 6737, 2478, 911, 335, 123, 45,
     16, 6, 2 >>

ExpNeg(d) == IF d < Len(ExpTable) THEN ExpTable[d + 1] ELSE 0

\* ceil(ln(s / 10^6)) for 10^6 <= s, a sum of at most 20 terms of ExpNeg.
LogCeil(s) ==
  IF s <= 1000000 THEN 0
  ELSE IF s <= 2718281 THEN 1
  ELSE IF s <= 7389056 THEN 2
  ELSE 3

RECURSIVE SumOver(_, _)
\* The sum of f over the finite set S of its domain.
SumOver(f, S) ==
  IF S = {} THEN 0
  ELSE LET j == CHOOSE k \in S : TRUE IN f[j] + SumOver(f, S \ {j})

\* The largest finite value of v (some value of v is finite).
MaxFin(v) ==
  LET F == {j \in DOMAIN v : v[j].t = "fin"}
      j == CHOOSE k \in F : \A l \in F : v[l].v <= v[k].v
  IN v[j].v

\* exp(v[j] - max v) in millionths, rounded down; 0 for -inf.
ExpShifted(v) ==
  LET m == MaxFin(v)
  IN [j \in DOMAIN v |-> IF v[j].t = "fin" THEN ExpNeg(m - v[j].v) ELSE 0]

\* torch.nn.functional.log_softmax along the last axis of one row.
LogSoftmax(v) ==
  IF \E j \in DOMAIN v : v[j].t = "nan" THEN [j \in DOMAIN v |-> NaN]
  ELSE IF \A j \in DOMAIN v : v[j].t = "-inf" THEN [j \in DOMAIN v |-> NaN]
  ELSE LET m == MaxFin(v)
           s == SumOver(ExpShifted(v), DOMAIN v)
       IN [j \in DOMAIN v |->
             IF v[j].t = "-inf" THEN NegInf
             ELSE Fin(v[j].v - m - LogCeil(s))]

\* ---------------------------------------------------- masked_log_softmax
\* log(0 + 0): what (mask + eps).log() would give at a masked position
\* without the epsilon.
LogOfZero == NegInf

\* (0 + 1e-45).log(): 1e-45 is the smallest float32 subnormal.
LogOfEps == Fin(log_eps)

\* (mask + 1e-45).log() at one position; 1 + 1e-45 = 1 in float32.
MaskLog(m) == IF m = 1 THEN Fin(0) ELSE LogOfEps

\* vector + (mask + 1e-45).log(), for a row of finite scores.
MaskedVector(vector, mask) ==
  [j \in DOMAIN vector |-> FAdd(Fin(vector[j]), MaskLog(mask[j]))]

masked_log_softmax(vector, mask) == LogSoftmax(MaskedVector(vector, mask))

\* ------------------------------------------------------------ masked_max
\* replaced_vector.max(dim): the value and an index of a largest entry; a
\* nan entry wins.  Which index of several equal entries is returned is
\* device-specific in the torch releases that accept the byte mask of
\* masked_max: the build returns the first or the last.
TorchMax(v, tie) ==
  LET D == DOMAIN v
      C == IF \E j \in D : v[j].t = "nan"
           THEN {j \in D : v[j].t = "nan"}
           ELSE {j \in D : \A k \in D : FLeq(v[k], v[j])}
      idx == IF tie = "first"
             THEN CHOOSE j \in C : \A k \in C : j <= k
             ELSE CHOOSE j \in C : \A k \in C : k <= j
  IN [max_value |-> v[idx], max_index |-> idx]

\* masked_fill without the mask: nothing is replaced.
ReplacedNone(vector, mask) == vector

\* masked_fill with the mask itself: the valid entries are replaced.
ReplacedInverted(vector, mask) ==
  [j \in DOMAIN vector |-> IF mask[j] # 0 THEN Fin(min_val) ELSE vector[j]]

\* vector.masked_fill((1.0 - mask).byte(), min_val)
ReplacedVector(vector, mask) ==
  LET one_minus_mask == [j \in DOMAIN vector |-> 1 - mask[j]]
  IN [j \in DOMAIN vector |->
        IF one_minus_mask[j] # 0 THEN Fin(min_val) ELSE vector[j]]

masked_max(vector, mask, tie) == TorchMax(ReplacedVector(vector, mask), tie)

\* ------------------------------------------------------------------ state
VARIABLES
  bidirectional,       \* PointerNet.__init__: the encoder runs both directions
  hidden_size,         \* PointerNet.__init__: the decoder's hidden size
  tie_break,           \* the build's max(): "first" or "last" of equal entries
  pc,                  \* position in PointerNet.forward
  batch_size,
  max_seq_len,
  input_lengths,       \* b -> true length of sequence b
  decoder_input,       \* b -> the row fed to the step decoder
  decoder_hidden,      \* the (h, c) pair carried by the loop
  mask_tensor,         \* b -> i -> j -> 0 or 1
  i,                   \* the loop index
  sub_mask,            \* mask_tensor[:, i, :].float()
  query,               \* the decoder state the attention scorer was given
  log_pointer_score,   \* b -> j -> log-score of this step
  masked_argmax,       \* b -> index selected at this step
  pointer_log_scores,  \* list of the steps' log_pointer_score
  pointer_argmaxs,     \* list of the steps' masked_argmax
  result,              \* what forward returns
  p_op,                \* the primitive called on (p_vector, p_mask)
  p_vector,            \* a primitive's score row
  p_mask,              \* a primitive's mask row
  p_done,              \* the primitive has returned
  p_max,               \* masked_max's return value
  p_lsm                \* masked_log_softmax's return value

vars ==
  << bidirectional, hidden_size, tie_break, pc, batch_size, max_seq_len,
     input_lengths, decoder_input, decoder_hidden, mask_tensor, i, sub_mask,
     query,
     log_pointer_score, masked_argmax, pointer_log_scores, pointer_argmaxs,
     result, p_op, p_vector, p_mask, p_done, p_max, p_lsm >>

forward_vars ==
  << pc, batch_size, max_seq_len, input_lengths, decoder_input,
     decoder_hidden, mask_tensor, i, sub_mask, query, log_pointer_score,
     masked_argmax, pointer_log_scores, pointer_argmaxs, result >>

prim_vars == << p_op, p_vector, p_mask, p_done, p_max, p_lsm >>

TieBreaks == {"first", "last"}

\* ------------------------------------------------------ encoder (symbolic)
\* self.num_directions = 2 if bidirectional else 1
NumDirections(bidir) == IF bidir THEN 2 ELSE 1

\* The final state of one (layer, direction) of the encoder LSTM.
NoState == [layer |-> -1, direction |-> -1]

\* h_n (and c_n) as nn.LSTM returns it: (num_layers * num_directions, B, H),
\* entry layer * num_directions + direction.
EncoderHidden(nd) ==
  [k \in 0 .. (num_layers * nd - 1) |->
     [layer |-> k \div nd, direction |-> k % nd]]

\* .view(num_layers, num_directions, batch_size, hidden_size)
View(flat, nd) ==
  [l \in 0 .. (num_layers - 1) |-> [d \in 0 .. (nd - 1) |-> flat[l * nd + d]]]

\* encoder_h_n[-1, -1]: the last layer's last direction.
LastDirectionState(bidir) ==
  LET nd == NumDirections(bidir)
  IN View(EncoderHidden(nd), nd)[num_layers - 1][nd - 1]

\* encoder_h_n[-1, 0] and encoder_c_n[-1, 0]: the last layer's direction 0.
InitialState(bidir) ==
  LET nd == NumDirections(bidir)
  IN View(EncoderHidden(nd), nd)[num_layers - 1][0]

\* The lengths Encoder.forward accepts: pack_padded_sequence wants them
\* positive and in decreasing order, and pad_packed_sequence pads the
\* outputs to the longest, which the attention mask needs to be max_seq_len.
ValidLengths(B, L) ==
  {lens \in [0 .. (B - 1) -> 1 .. L] :
     /\ lens[0] = L
     /\ \A b \in 0 .. (B - 2) : lens[b] >= lens[b + 1]}

\* encoder_outputs.new_zeros((batch_size, hidden_size)), one row of it.
Zeros == [src |-> "new_zeros", index |-> 0]

\* A gather that is off by one: encoder_outputs[b, index + 1, :].
EncoderRowNext(index) == [src |-> "encoder_outputs", index |-> index + 1]

\* encoder_outputs[b, index, :]
EncoderRow(index) == [src |-> "encoder_outputs", index |-> index]

\* ------------------------------------------------------------------- mask
\* torch.arange(max_seq_len).expand(batch_size, max_seq_len, max_seq_len)
RangeTensor(B, L) ==
  [b \in 0 .. (B - 1) |-> [r \in 0 .. (L - 1) |-> [c \in 0 .. (L - 1) |-> c]]]

\* input_lengths.view(-1, 1, 1).expand(batch_size, max_seq_len, max_seq_len)
EachLenTensor(lens, B, L) ==
  [b \in 0 .. (B - 1) |->
     [r \in 0 .. (L - 1) |-> [c \in 0 .. (L - 1) |-> lens[b]]]]

\* The row mask with the comparison off by one: range_tensor + 1 < each_len.
RowMaskShort(lens, B, L) ==
  [b \in 0 .. (B - 1) |->
     [r \in 0 .. (L - 1) |->
        [c \in 0 .. (L - 1) |-> IF c + 1 < lens[b] THEN 1 ELSE 0]]]

\* range_tensor < each_len_tensor
RowMaskTensor(lens, B, L) ==
  [b \in 0 .. (B - 1) |->
     [r \in 0 .. (L - 1) |->
        [c \in 0 .. (L - 1) |->
           IF RangeTensor(B, L)[b][r][c] < EachLenTensor(lens, B, L)[b][r][c]
           THEN 1 ELSE 0]]]

\* t.transpose(1, 2)
Transpose12(t, B, L) ==
  [b \in 0 .. (B - 1) |->
     [r \in 0 .. (L - 1) |-> [c \in 0 .. (L - 1) |-> t[b][c][r]]]]

\* The mask without the column (step) bound: row_mask_tensor alone.
RowMaskOnly(lens, B, L) == RowMaskTensor(lens, B, L)

\* row_mask_tensor * col_mask_tensor
MaskTensor(lens, B, L) ==
  LET row_mask_tensor == RowMaskTensor(lens, B, L)
      col_mask_tensor == Transpose12(row_mask_tensor, B, L)
  IN [b \in 0 .. (B - 1) |->
        [r \in 0 .. (L - 1) |->
           [c \in 0 .. (L - 1) |->
              row_mask_tensor[b][r][c] * col_mask_tensor[b][r][c]]]]

\* ---------------------------------------------------------- step decoder
\* t.squeeze(): every dimension of size 1 is dropped.
Squeeze(shape) == SelectSeq(shape, LAMBDA d : d # 1)

\* nn.LSTMCell's check of (h, c) against its input of shape (B, H): both
\* are 2-D, of the input's batch size and of the cell's hidden size.
CheckForwardHidden(B, H, shape) ==
  /\ Len(shape) = 2
  /\ shape[1] = B
  /\ shape[2] = H

\* A step decoder that returns the state it was given.
LSTMCellStale(input, hidden) == hidden

\* self.decoding_rnn(decoder_input, decoder_hidden): the new (h_i, c_i) of
\* shape (B, H), a term recording the inputs consumed since the encoder's
\* state.
LSTMCell(input, hidden) ==
  [hidden EXCEPT !.inputs = Append(@, input),
                 !.shape = << batch_size, hidden_size >>]

\* ------------------------------------------------------- attention scores
\* The rows u_i = vt(tanh(W1 e + W2 h)) explored for a step: all equal,
\* falling, rising by more than the masking offset 103, and rising so
\* steeply that every log-score but the largest falls below min_val.
ScoreRows(L) ==
  { [j \in 0 .. (L - 1) |-> 0],
    [j \in 0 .. (L - 1) |-> L - 1 - j],
    [j \in 0 .. (L - 1) |-> j * BigScore],
    [j \in 0 .. (L - 1) |-> j * HugeScore] }

\* torch.stack(pointer_log_scores, 1): (B, step, candidate)
Stack1(list, B) ==
  [b \in 0 .. (B - 1) |-> [s \in 0 .. (Len(list) - 1) |-> list[s + 1][b]]]

\* torch.cat(pointer_argmaxs, 1): (B, step)
Cat1(list, B) ==
  [b \in 0 .. (B - 1) |-> [s \in 0 .. (Len(list) - 1) |-> list[s + 1][b]]]

NoResult ==
  [pointer_log_scores |-> << >>, pointer_argmaxs |-> << >>,
   mask_tensor |-> << >>]

\* ------------------------------------------------------ PointerNet.forward
Batch == 0 .. (batch_size - 1)
Positions == 0 .. (max_seq_len - 1)

NoHidden == [h |-> NoState, c |-> NoState, shape |-> << >>, inputs |-> << >>]

ForwardIdle ==
  /\ pc = "idle"
  /\ batch_size = 0
  /\ max_seq_len = 0
  /\ input_lengths = << >>
  /\ decoder_input = << >>
  /\ decoder_hidden = NoHidden
  /\ mask_tensor = << >>
  /\ i = 0
  /\ sub_mask = << >>
  /\ query = NoHidden
  /\ log_pointer_score = << >>
  /\ masked_argmax = << >>
  /\ pointer_log_scores = << >>
  /\ pointer_argmaxs = << >>
  /\ result = NoResult

\* The call, up to the decoder's initial input and state (lines 175-213).
Forward ==
  /\ pc = "idle"
  /\ \E B \in 1 .. MaxBatch, L \in 1 .. MaxSeqLen :
       \E lens \in ValidLengths(B, L) :
         /\ batch_size' = B
         /\ max_seq_len' = L
         /\ input_lengths' = lens
         /\ decoder_input' = [b \in 0 .. (B - 1) |-> Zeros]
  /\ decoder_hidden' =
       [h |-> InitialState(bidirectional), c |-> InitialState(bidirectional),
        shape |-> Squeeze(<< batch_size', hidden_size >>), inputs |-> << >>]
  /\ pc' = "mask"
  /\ UNCHANGED << bidirectional, hidden_size, tie_break, mask_tensor, i, sub_mask, query,
                  log_pointer_score, masked_argmax, pointer_log_scores,
                  pointer_argmaxs, result, prim_vars >>

\* The validity mask and the empty output lists (lines 215-227).
BuildMask ==
  /\ pc = "mask"
  /\ mask_tensor' = MaskTensor(input_lengths, batch_size, max_seq_len)
  /\ pointer_log_scores' = << >>
  /\ pointer_argmaxs' = << >>
  /\ i' = 0
  /\ pc' = "for"
  /\ UNCHANGED << bidirectional, hidden_size, tie_break, batch_size, max_seq_len,
                  input_lengths, decoder_input, decoder_hidden, sub_mask,
                  query, log_pointer_score, masked_argmax, result, prim_vars >>

\* for i in range(max_seq_len): sub_mask = mask_tensor[:, i, :].float()
ForRange ==
  /\ pc = "for"
  /\ IF i < max_seq_len
     THEN /\ sub_mask' = [b \in Batch |-> mask_tensor[b][i]]
          /\ pc' = "rnn"
     ELSE /\ sub_mask' = sub_mask
          /\ pc' = "stack"
  /\ UNCHANGED << bidirectional, hidden_size, tie_break, batch_size, max_seq_len,
                  input_lengths, decoder_input, decoder_hidden, mask_tensor,
                  i, query, log_pointer_score, masked_argmax,
                  pointer_log_scores, pointer_argmaxs, result, prim_vars >>

\* h_i, c_i = self.decoding_rnn(...); decoder_hidden = (h_i, c_i).  The
\* cell raises when the state it is given has not the shape (B, H), and
\* forward ends there without returning.
DecodingRnn ==
  /\ pc = "rnn"
  /\ IF CheckForwardHidden(batch_size, hidden_size, decoder_hidden.shape)
     THEN /\ decoder_hidden' = LSTMCell(decoder_input, decoder_hidden)
          /\ pc' = "attn"
     ELSE /\ decoder_hidden' = decoder_hidden
          /\ pc' = "raised"
  /\ UNCHANGED << bidirectional, hidden_size, tie_break, batch_size, max_seq_len,
                  input_lengths, decoder_input, mask_tensor, i, sub_mask,
                  query, log_pointer_score, masked_argmax,
                  pointer_log_scores, pointer_argmaxs, result, prim_vars >>

\* log_pointer_score = self.attn(h_i, encoder_outputs, sub_mask), appended.
\* The raw scores u_i are any row of ScoreRows, the same for every sequence
\* of the batch; each sequence masks it by its own sub_mask row.
Attn ==
  /\ pc = "attn"
  /\ \E u_i \in ScoreRows(max_seq_len) :
       log_pointer_score' =
         [b \in Batch |-> masked_log_softmax(u_i, sub_mask[b])]
  /\ query' = decoder_hidden
  /\ pointer_log_scores' = Append(pointer_log_scores, log_pointer_score')
  /\ pc' = "max"
  /\ UNCHANGED << bidirectional, hidden_size, tie_break, batch_size, max_seq_len,
                  input_lengths, decoder_input, decoder_hidden, mask_tensor,
                  i, sub_mask, masked_argmax, pointer_argmaxs, result,
                  prim_vars >>

\* _, masked_argmax = masked_max(log_pointer_score, sub_mask, dim=1), appended.
MaskedMax ==
  /\ pc = "max"
  /\ masked_argmax' =
       [b \in Batch |->
          masked_max(log_pointer_score[b], sub_mask[b], tie_break).max_index]
  /\ pointer_argmaxs' = Append(pointer_argmaxs, masked_argmax')
  /\ pc' = "gather"
  /\ UNCHANGED << bidirectional, hidden_size, tie_break, batch_size, max_seq_len,
                  input_lengths, decoder_input, decoder_hidden, mask_tensor,
                  i, sub_mask, query, log_pointer_score, pointer_log_scores,
                  result, prim_vars >>

\* A gather that also strikes the selected position from the later steps'
\* masks (visited-position exclusion).
GatherVisited ==
  /\ pc = "gather"
  /\ decoder_input' = [b \in Batch |-> EncoderRow(masked_argmax[b])]
  /\ mask_tensor' =
       [b \in Batch |->
          [r \in Positions |->
             [c \in Positions |->
                IF r > i /\ c = masked_argmax[b] THEN 0
                ELSE mask_tensor[b][r][c]]]]
  /\ i' = i + 1
  /\ pc' = "for"
  /\ UNCHANGED << bidirectional, hidden_size, tie_break, batch_size, max_seq_len,
                  input_lengths, decoder_hidden, sub_mask, query,
                  log_pointer_score, masked_argmax, pointer_log_scores,
                  pointer_argmaxs, result, prim_vars >>

\* decoder_input = torch.gather(encoder_outputs, dim=1, index=index_tensor)
Gather ==
  /\ pc = "gather"
  /\ decoder_input' = [b \in Batch |-> EncoderRow(masked_argmax[b])]
  /\ i' = i + 1
  /\ pc' = "for"
  /\ UNCHANGED << bidirectional, hidden_size, tie_break, batch_size, max_seq_len,
                  input_lengths, decoder_hidden, mask_tensor, sub_mask, query,
                  log_pointer_score, masked_argmax, pointer_log_scores,
                  pointer_argmaxs, result, prim_vars >>

\* torch.stack, torch.cat and the return (lines 260-263).
Return ==
  /\ pc = "stack"
  /\ result' =
       [pointer_log_scores |-> Stack1(pointer_log_scores, batch_size),
        pointer_argmaxs |-> Cat1(pointer_argmaxs, batch_size),
        mask_tensor |-> mask_tensor]
  /\ pc' = "done"
  /\ UNCHANGED << bidirectional, hidden_size, tie_break, batch_size, max_seq_len,
                  input_lengths, decoder_input, decoder_hidden, mask_tensor,
                  i, sub_mask, query, log_pointer_score, masked_argmax,
                  pointer_log_scores, pointer_argmaxs, prim_vars >>

PrimIdle ==
  /\ p_op = "none"
  /\ p_vector = << >>
  /\ p_mask = << >>
  /\ p_done = FALSE
  /\ p_max = [max_value |-> NaN, max_index |-> -1]
  /\ p_lsm = << >>

Init ==
  /\ bidirectional \in BOOLEAN
  /\ hidden_size \in 1 .. MaxHidden
  /\ tie_break \in TieBreaks
  /\ ForwardIdle
  /\ PrimIdle

Next ==
  \/ Forward
  \/ BuildMask
  \/ ForRange
  \/ DecodingRnn
  \/ Attn
  \/ MaskedMax
  \/ Gather
  \/ Return

Spec == Init /\ [][Next]_vars

\* ------------------------------------------------- the primitives, alone
\* The raw scores given to masked_log_softmax: two ordinary scores 80 apart
\* and one more than 103 above both.
ScoreVals == {0, 80, BigScore}

\* The scores given to masked_max: those, and the sentinel itself.
MaxScoreVals == ScoreVals \cup {min_val}

Primitives == {"masked_max", "masked_log_softmax"}

InitPrim ==
  /\ bidirectional = TRUE
  /\ hidden_size = 1
  /\ tie_break \in TieBreaks
  /\ ForwardIdle
  /\ p_op \in Primitives
  /\ \E n \in 1 .. MaxSeqLen :
       /\ p_vector \in [0 .. (n - 1) ->
                          IF p_op = "masked_max" THEN MaxScoreVals
                          ELSE ScoreVals]
       /\ p_mask \in [0 .. (n - 1) -> {0, 1}]
  /\ p_done = FALSE
  /\ p_max = [max_value |-> NaN, max_index |-> -1]
  /\ p_lsm = << >>

\* masked_max(p_vector, p_mask, dim=-1)
CallMaskedMax ==
  /\ p_op = "masked_max"
  /\ ~p_done
  /\ p_max' = masked_max([j \in DOMAIN p_vector |-> Fin(p_vector[j])],
                         p_mask, tie_break)
  /\ p_done' = TRUE
  /\ UNCHANGED << bidirectional, hidden_size, tie_break, forward_vars, p_op, p_vector,
                  p_mask, p_lsm >>

\* masked_log_softmax(p_vector, p_mask, dim=-1)
CallMaskedLogSoftmax ==
  /\ p_op = "masked_log_softmax"
  /\ ~p_done
  /\ p_lsm' = masked_log_softmax(p_vector, p_mask)
  /\ p_done' = TRUE
  /\ UNCHANGED << bidirectional, hidden_size, tie_break, forward_vars, p_op, p_vector,
                  p_mask, p_max >>

NextPrim ==
  \/ CallMaskedMax
  \/ CallMaskedLogSoftmax

SpecPrim == InitPrim /\ [][NextPrim]_vars

\* ---------------------------------------------------------------- claims
\* Positions of the forward pass where the mask exists.
MaskBuilt == pc \notin {"idle", "mask"}

\* Positions inside the body of the loop, at step i.
InBody == pc \in {"rnn", "attn", "max", "gather"}

\* The steps whose selected indices have been collected.
SelectedSteps == 0 .. (Len(pointer_argmaxs) - 1)

\* The index selected for sequence b at step s.
Selected(b, s) == pointer_argmaxs[s + 1][b]

\* Some valid candidate of sequence b has, at step s, a log-score above the
\* sentinel min_val (masked_max's assumption on its scores).
AboveSentinel(b, s) ==
  \E j \in Positions :
    /\ j < input_lengths[b]
    /\ pointer_log_scores[s + 1][b][j].t = "fin"
    /\ pointer_log_scores[s + 1][b][j].v > min_val

\* C1: once built, and as returned, the mask has mask[b, i, j] true exactly
\* when i < length[b] and j < length[b].
C1_MaskIffWithinLength ==
  /\ MaskBuilt =>
       \A b \in Batch : \A r \in Positions : \A c \in Positions :
         (mask_tensor[b][r][c] = 1) <=>
           (r < input_lengths[b] /\ c < input_lengths[b])
  /\ MaskBuilt => \A b \in Batch : \A r \in Positions : \A c \in Positions :
       mask_tensor[b][r][c] \in {0, 1}
  /\ pc = "done" => result.mask_tensor = mask_tensor

\* C1 witness: a mask built for a batch with a padded sequence and a full one.
C1_Witness ==
  /\ pc = "for"
  /\ \E b \in Batch : input_lengths[b] < max_seq_len
  /\ \E b \in Batch : input_lengths[b] = max_seq_len /\ max_seq_len >= 2

\* C2 as stated: at every step, for every sequence, the selected index has a
\* true mask value at that step.
C2_Original ==
  \A s \in SelectedSteps : \A b \in Batch :
    mask_tensor[b][s][Selected(b, s)] = 1

\* C2 amended: at every step s < length[b] at which some valid candidate's
\* log-score is above the sentinel, the selected index has a true mask value
\* at that step.
C2_SelectedIsUnmasked ==
  \A s \in SelectedSteps : \A b \in Batch :
    (s < input_lengths[b] /\ AboveSentinel(b, s)) =>
      mask_tensor[b][s][Selected(b, s)] = 1

\* C2 witness: at a valid step of a padded sequence, a padded position has
\* the largest log-score and a valid one is selected.
C2_Witness ==
  \E s \in SelectedSteps : \E b \in Batch :
    /\ s < input_lengths[b]
    /\ input_lengths[b] < max_seq_len
    /\ AboveSentinel(b, s)
    /\ \E j \in Positions :
         /\ j >= input_lengths[b]
         /\ pointer_log_scores[s + 1][b][Selected(b, s)].v
              < pointer_log_scores[s + 1][b][j].v

\* The largest score of p_vector over the unmasked positions.
UnmaskedMax ==
  LET U == {j \in DOMAIN p_vector : p_mask[j] = 1}
      j == CHOOSE k \in U : \A l \in U : p_vector[l] <= p_vector[k]
  IN p_vector[j]

\* C3's precondition: all scores above the sentinel, some position unmasked.
C3_Pre ==
  /\ \A j \in DOMAIN p_vector : p_vector[j] > min_val
  /\ \E j \in DOMAIN p_vector : p_mask[j] = 1

\* C3: for scores above min_val and a mask with an unmasked position,
\* masked_max returns an unmasked index and the largest unmasked score.
C3_MaskedMaxCorrect ==
  (p_op = "masked_max" /\ p_done /\ C3_Pre) =>
    /\ p_max.max_index \in DOMAIN p_vector
    /\ p_mask[p_max.max_index] = 1
    /\ p_max.max_value = Fin(UnmaskedMax)

\* C3 witness: masked_max has run on a row whose largest score is masked.
C3_Witness ==
  /\ p_op = "masked_max" /\ p_done
  /\ C3_Pre
  /\ \E j \in DOMAIN p_vector : p_mask[j] = 0 /\ p_vector[j] > UnmaskedMax

\* C4 as stated: at every step, every sequence's mask row has a true entry.
C4_Original ==
  InBody => \A b \in Batch : \E j \in Positions : sub_mask[b][j] = 1

\* C4 amended: at every step i < length[b], sequence b's mask row has a
\* true entry, so masked_max is not called on a fully masked row there.
C4_RowHasCandidate ==
  InBody =>
    \A b \in Batch :
      i < input_lengths[b] => \E j \in Positions : sub_mask[b][j] = 1

\* C4 witness: masked_max is about to run at a valid step of a padded
\* sequence.
C4_Witness ==
  /\ pc = "max"
  /\ \E b \in Batch : i < input_lengths[b] /\ input_lengths[b] < max_seq_len

\* C5 as stated: at every step, steps i >= length[b] included, the selected
\* index is below length[b].
C5_Original ==
  \A s \in SelectedSteps : \A b \in Batch : Selected(b, s) < input_lengths[b]

\* C5 amended: at every step s < length[b] at which some valid candidate's
\* log-score is above the sentinel, the selected index is below length[b],
\* and so is the row gathered as the next decoder input.
C5_SelectedWithinLength ==
  /\ \A s \in SelectedSteps : \A b \in Batch :
       (s < input_lengths[b] /\ AboveSentinel(b, s)) =>
         Selected(b, s) < input_lengths[b]
  /\ (pc \in {"for", "rnn"} /\ i >= 1) =>
       \A b \in Batch :
         (i - 1 < input_lengths[b] /\ AboveSentinel(b, i - 1)) =>
           /\ decoder_input[b].src = "encoder_outputs"
           /\ decoder_input[b].index < input_lengths[b]

\* C5 witness: a row was gathered after a valid step of a padded sequence.
C5_Witness ==
  /\ pc = "for"
  /\ i >= 1
  /\ \E b \in Batch :
       /\ i - 1 < input_lengths[b]
       /\ input_lengths[b] < max_seq_len
       /\ AboveSentinel(b, i - 1)

\* What forward returns has one log-score row and one index per step and
\* sequence: shapes (B, L, L) and (B, L).
ResultShapes ==
  /\ DOMAIN result.pointer_log_scores = Batch
  /\ DOMAIN result.pointer_argmaxs = Batch
  /\ \A b \in Batch :
       /\ DOMAIN result.pointer_log_scores[b] = Positions
       /\ DOMAIN result.pointer_argmaxs[b] = Positions
       /\ \A s \in Positions :
            /\ DOMAIN result.pointer_log_scores[b][s] = Positions
            /\ result.pointer_log_scores[b][s] = pointer_log_scores[s + 1][b]
            /\ result.pointer_argmaxs[b][s] = pointer_argmaxs[s + 1][b]
            /\ result.pointer_argmaxs[b][s] \in Positions

\* C6: every call of forward ends by returning, after exactly L =
\* max_seq_len steps of the loop whatever the lengths, with one log-score row
\* and one index per step and sequence: shapes (B, L, L) and (B, L).
C6_ExactlyLSteps ==
  /\ pc # "raised"
  /\ MaskBuilt => i <= max_seq_len
  /\ pc \in {"stack", "done"} =>
       /\ i = max_seq_len
       /\ Len(pointer_log_scores) = max_seq_len
       /\ Len(pointer_argmaxs) = max_seq_len
  /\ pc = "done" => ResultShapes

\* C7 as stated: at the start of the loop the decoder state is that of the
\* encoder's last layer and last direction, and the input is the zero vector.
C7_Original ==
  (pc = "for" /\ i = 0) =>
    /\ decoder_hidden.h = LastDirectionState(bidirectional)
    /\ decoder_hidden.c = LastDirectionState(bidirectional)
    /\ \A b \in Batch : decoder_input[b] = Zeros

\* C7 amended: at the start of the loop the decoder state is the (hidden,
\* cell) pair of the encoder's last layer and FIRST direction (index 0), also
\* with a bidirectional encoder, and the input is the zero vector.
C7_InitialDecoderState ==
  (pc = "for" /\ i = 0) =>
    /\ decoder_hidden.h = [layer |-> num_layers - 1, direction |-> 0]
    /\ decoder_hidden.c = [layer |-> num_layers - 1, direction |-> 0]
    /\ decoder_hidden.inputs = << >>
    /\ \A b \in Batch : decoder_input[b] = Zeros

\* C7 witness: the loop is about to start under a bidirectional encoder.
C7_Witness == pc = "for" /\ i = 0 /\ bidirectional

\* An upper bound, in millionths, of exp(x) for a finite log-score x whose
\* grid value (rounded down) is x.v.
ExpUpper(x) == IF x.v >= -1 THEN 1000000 ELSE ExpNeg(-x.v - 1) + 1

\* The probability mass of the masked positions of p_lsm is at most 1e-5,
\* i.e. the unmasked positions sum to 1 within 1e-5.
MaskedMassNegligible ==
  LET M == {j \in DOMAIN p_lsm : p_mask[j] = 0}
  IN SumOver([j \in DOMAIN p_lsm |-> ExpUpper(p_lsm[j])], M) <= 10

AllFinite == \A j \in DOMAIN p_lsm : IsFinite(p_lsm[j])

SomeUnmasked == \E j \in DOMAIN p_vector : p_mask[j] = 1

\* C8 as stated: for every score row and mask the output is finite
\* everywhere, and for a row with an unmasked position the unmasked
\* exponentiated outputs sum to 1 within tolerance.
C8_Original ==
  (p_op = "masked_log_softmax" /\ p_done) =>
    /\ AllFinite
    /\ SomeUnmasked => MaskedMassNegligible

\* No masked score exceeds the largest unmasked score by more than 80.
GapBounded ==
  \A j \in DOMAIN p_vector : p_mask[j] = 0 => p_vector[j] - UnmaskedMax <= 80

\* C8 amended: the output is finite everywhere, fully masked rows included;
\* and for a row with an unmasked position in which no masked score exceeds
\* the largest unmasked score by more than 80, the unmasked exponentiated
\* outputs sum to 1 within tolerance.
C8_FiniteAndNormalised ==
  (p_op = "masked_log_softmax" /\ p_done) =>
    /\ AllFinite
    /\ (SomeUnmasked /\ GapBounded) => MaskedMassNegligible

\* C8 witness: masked_log_softmax has run on a fully masked row, or on a
\* partly masked row whose largest score is masked.
C8_Witness ==
  /\ (p_op = "masked_log_softmax" /\ p_done)
  /\ \/ ~SomeUnmasked
     \/ /\ SomeUnmasked
        /\ GapBounded
        /\ \E j \in DOMAIN p_vector : p_mask[j] = 0 /\ p_vector[j] > UnmaskedMax

\* The row the loop feeds to the step decoder at step s.
FedAt(s) ==
  IF s = 0 THEN [b \in Batch |-> Zeros]
  ELSE [b \in Batch |-> EncoderRow(Selected(b, s - 1))]

\* C9: within a step the decoder is updated first and once, attention is
\* scored with that new state, then the argmax is taken, then the row is
\* gathered; the input of step i+1 is the encoder row at the index selected
\* at step i, and the zero vector at step 0.
C9_StepOrder ==
  MaskBuilt =>
    \* the state has taken one update per step begun, each on that step's input
    /\ Len(decoder_hidden.inputs) = (IF pc \in {"attn", "max", "gather"}
                                     THEN i + 1 ELSE i)
    /\ \A s \in 0 .. (Len(decoder_hidden.inputs) - 1) :
         decoder_hidden.inputs[s + 1] = FedAt(s)
    \* the input in hand is that of step i
    /\ decoder_input = FedAt(i)
    \* attention was scored after the update, with the updated state
    /\ pc \in {"max", "gather"} =>
         /\ query = decoder_hidden
         /\ Len(pointer_log_scores) = i + 1
    \* the argmax follows the scoring, the gather follows the argmax
    /\ pc \in {"rnn", "attn", "max"} => Len(pointer_argmaxs) = i
    /\ pc = "gather" =>
         /\ Len(pointer_argmaxs) = i + 1
         /\ \A b \in Batch : Selected(b, i) = masked_argmax[b]

\* C9 witness: the second step's attention has been scored, its input being
\* a gathered encoder row.
C9_Witness ==
  /\ pc = "max"
  /\ i = 1
  /\ \A b \in Batch : decoder_input[b].src = "encoder_outputs"

\* C10: no step of the loop changes the mask, whose entries depend on the
\* lengths alone; so an index selected at a step s < length[b] stays a valid
\* candidate at every later step k < length[b].
C10_MaskReadOnly ==
  /\ [][MaskBuilt => mask_tensor' = mask_tensor]_vars
  /\ [](MaskBuilt =>
          mask_tensor = MaskTensor(input_lengths, batch_size, max_seq_len))
  /\ [](\A s \in SelectedSteps : \A b \in Batch :
          (s < input_lengths[b] /\ mask_tensor[b][s][Selected(b, s)] = 1) =>
            \A k \in Positions :
              (s < k /\ k < input_lengths[b]) =>
                mask_tensor[b][k][Selected(b, s)] = 1)

\* C10 witness: one sequence has the same index selected at two of its
\* valid steps.
C10_Witness ==
  \E b \in Batch : \E s \in SelectedSteps : \E k \in SelectedSteps :
    /\ s < k
    /\ k < input_lengths[b]
    /\ Selected(b, s) = Selected(b, k)
    /\ mask_tensor[b][k][Selected(b, k)] = 1

====
